---- MODULE Spec2Model ----
(***************************************************************************)
(* Salary Document Processor (streamlit_app.py): the two regex field       *)
(* extractors, the calculation engine, the calculations table formatter    *)
(* and the "Process Documents" handler over the Streamlit session state.   *)
(*                                                                         *)
(* A Python str is a sequence of characters; a character is a one-letter   *)
(* string, and "rupee" stands for the single character U+20B9.  A dict is  *)
(* the sequence of its <<key, value>> items in insertion order.  A float   *)
(* is the exact rational n/d in lowest terms (binary rounding is not       *)
(* modelled).                                                              *)
(***************************************************************************)
EXTENDS Integers, Sequences, FiniteSets, TLC

(***************************************************************************)
(* Characters and character classes of the patterns.                       *)
(***************************************************************************)
UpperLetters == <<"A", "B", "C", "D", "E", "F", "G", "H", "I", "J", "K", "L", "M",
                  "N", "O", "P", "Q", "R", "S", "T", "U", "V", "W", "X", "Y", "Z">>

LowerLetters == <<"a", "b", "c", "d", "e", "f", "g", "h", "i", "j", "k", "l", "m",
                  "n", "o", "p", "q", "r", "s", "t", "u", "v", "w", "x", "y", "z">>

DigitChars == <<"0", "1", "2", "3", "4", "5", "6", "7", "8", "9">>

Range(s) == {s[i] : i \in DOMAIN s}

UpperSet == Range(UpperLetters)

LowerSet == Range(LowerLetters)

\* [A-Za-z]
Letters == UpperSet \cup LowerSet

\* \d
Digits == Range(DigitChars)

\* \s
Whitespace == {" ", "\n", "\t"}

\* the lower-case and upper-case forms of the letters
ToLower ==
    [A |-> "a", B |-> "b", C |-> "c", D |-> "d", E |-> "e", F |-> "f", G |-> "g",
     H |-> "h", I |-> "i", J |-> "j", K |-> "k", L |-> "l", M |-> "m", N |-> "n",
     O |-> "o", P |-> "p", Q |-> "q", R |-> "r", S |-> "s", T |-> "t", U |-> "u",
     V |-> "v", W |-> "w", X |-> "x", Y |-> "y", Z |-> "z"]

ToUpper ==
    [a |-> "A", b |-> "B", c |-> "C", d |-> "D", e |-> "E", f |-> "F", g |-> "G",
     h |-> "H", i |-> "I", j |-> "J", k |-> "K", l |-> "L", m |-> "M", n |-> "N",
     o |-> "O", p |-> "P", q |-> "Q", r |-> "R", s |-> "S", t |-> "T", u |-> "U",
     v |-> "V", w |-> "W", x |-> "X", y |-> "Y", z |-> "Z"]

\* str.lower() and str.upper() on one character
lower(c) == IF c \in UpperSet THEN ToLower[c] ELSE c

upper(c) == IF c \in LowerSet THEN ToUpper[c] ELSE c

(***************************************************************************)
(* The regular expressions of the two pattern tables, as syntax trees, and *)
(* re.search(pattern, text, re.IGNORECASE): a backtracking matcher.        *)
(* Ends(r, text, i) is the sequence of positions at which a match of r     *)
(* starting at position i can end, in the order the backtracking engine    *)
(* tries them (greedy first, alternatives left to right).                  *)
(***************************************************************************)
Lit(s) == [t |-> "lit", s |-> s]

Cls(c) == [t |-> "cls", cls |-> c]

\* cls* (min = 0) and cls+ (min = 1), greedy
Rep(c, min) == [t |-> "rep", cls |-> c, min |-> min]

\* r?, greedy
Opt(r) == [t |-> "opt", r |-> r]

Alt(rs) == [t |-> "alt", rs |-> rs]

Cat(rs) == [t |-> "cat", rs |-> rs]

\* re.IGNORECASE: a character matches a class or a literal in either case
InClass(c, cls) == c \in cls \/ lower(c) \in cls \/ upper(c) \in cls

LitAt(s, text, i) ==
    /\ i + Len(s) - 1 <= Len(text)
    /\ \A k \in 1..Len(s) : lower(text[i + k - 1]) = lower(s[k])

RECURSIVE Run(_, _, _)
\* the length of the longest run of characters of cls starting at position i
Run(cls, text, i) ==
    IF i <= Len(text) /\ InClass(text[i], cls)
    THEN 1 + Run(cls, text, i + 1)
    ELSE 0

RECURSIVE Ends(_, _, _)
RECURSIVE EndsAlt(_, _, _, _)
RECURSIVE EndsCat(_, _, _, _)
RECURSIVE EndsEach(_, _, _, _, _)

Ends(r, text, i) ==
    CASE r.t = "lit" -> IF LitAt(r.s, text, i) THEN <<i + Len(r.s)>> ELSE <<>>
      [] r.t = "cls" -> IF i <= Len(text) /\ InClass(text[i], r.cls)
                        THEN <<i + 1>> ELSE <<>>
      [] r.t = "rep" -> LET n == Run(r.cls, text, i)
                        IN  [k \in 1..(n - r.min + 1) |-> i + n - k + 1]
      [] r.t = "opt" -> Ends(r.r, text, i) \o <<i>>
      [] r.t = "alt" -> EndsAlt(r.rs, text, i, 1)
      [] r.t = "cat" -> EndsCat(r.rs, text, i, 1)

EndsAlt(rs, text, i, k) ==
    IF k > Len(rs) THEN <<>>
    ELSE Ends(rs[k], text, i) \o EndsAlt(rs, text, i, k + 1)

EndsCat(rs, text, i, k) ==
    IF k > Len(rs) THEN <<i>>
    ELSE EndsEach(rs, text, Ends(rs[k], text, i), 1, k + 1)

\* for each end p of the k-1 first parts, in order, the ends of the rest
EndsEach(rs, text, ps, j, k) ==
    IF j > Len(ps) THEN <<>>
    ELSE EndsCat(rs, text, ps[j], k) \o EndsEach(rs, text, ps, j + 1, k)

\* \s*:?\s*
Separator == <<Rep(Whitespace, 0), Opt(Lit(<<":">>)), Rep(Whitespace, 0)>>

\* (?:Rs\.?|rupee|INR)?\s*
CurrencyMarker ==
    <<Opt(Alt(<<Cat(<<Lit(<<"R", "s">>), Opt(Lit(<<".">>))>>),
               Lit(<<"rupee">>),
               Lit(<<"I", "N", "R">>)>>)),
      Rep(Whitespace, 0)>>

\* ([\d,.]+): any number of decimal points
CurrencyGroup_AnyPoints == Rep(Digits \cup {",", "."}, 1)

\* ([\d,]+\.?\d*)
CurrencyGroup ==
    Cat(<<Rep(Digits \cup {","}, 1), Opt(Lit(<<".">>)), Rep(Digits, 0)>>)

\* ([A-Za-z\s]+)
NameGroup == Rep(Letters \cup Whitespace, 1)

\* ([A-Za-z0-9]+) and, under re.IGNORECASE, ([A-Z0-9]+)
AlnumGroup == Rep(Letters \cup Digits, 1)

\* (20\d{2}-\d{2}|20\d{2})
YearGroup ==
    Alt(<<Cat(<<Lit(<<"2", "0">>), Cls(Digits), Cls(Digits), Lit(<<"-">>),
                Cls(Digits), Cls(Digits)>>),
          Cat(<<Lit(<<"2", "0">>), Cls(Digits), Cls(Digits)>>)>>)

\* (?:Name|Employee Name|Employee)
employee_name_label ==
    Alt(<<Lit(<<"N", "a", "m", "e">>),
          Lit(<<"E", "m", "p", "l", "o", "y", "e", "e", " ", "N", "a", "m", "e">>),
          Lit(<<"E", "m", "p", "l", "o", "y", "e", "e">>)>>)

\* (?:Employee ID|Emp ID|Employee No|ID)
employee_id_label ==
    Alt(<<Lit(<<"E", "m", "p", "l", "o", "y", "e", "e", " ", "I", "D">>),
          Lit(<<"E", "m", "p", " ", "I", "D">>),
          Lit(<<"E", "m", "p", "l", "o", "y", "e", "e", " ", "N", "o">>),
          Lit(<<"I", "D">>)>>)

\* (?:Basic Salary|Basic Pay|Basic)
basic_salary_label ==
    Alt(<<Lit(<<"B", "a", "s", "i", "c", " ", "S", "a", "l", "a", "r", "y">>),
          Lit(<<"B", "a", "s", "i", "c", " ", "P", "a", "y">>),
          Lit(<<"B", "a", "s", "i", "c">>)>>)

\* (?:HRA|House Rent Allowance)
hra_label ==
    Alt(<<Lit(<<"H", "R", "A">>),
          Lit(<<"H", "o", "u", "s", "e", " ", "R", "e", "n", "t", " ", "A", "l", "l", "o", "w", "a", "n", "c", "e">>)>>)

\* (?:PF|Provident Fund)
pf_label ==
    Alt(<<Lit(<<"P", "F">>),
          Lit(<<"P", "r", "o", "v", "i", "d", "e", "n", "t", " ", "F", "u", "n", "d">>)>>)

\* (?:Gross Salary|Gross Pay|Gross)
gross_salary_label ==
    Alt(<<Lit(<<"G", "r", "o", "s", "s", " ", "S", "a", "l", "a", "r", "y">>),
          Lit(<<"G", "r", "o", "s", "s", " ", "P", "a", "y">>),
          Lit(<<"G", "r", "o", "s", "s">>)>>)

\* (?:Net Amount|Net Salary|Net Pay|Take Home|Total|Net)
net_amount_label ==
    Alt(<<Lit(<<"N", "e", "t", " ", "A", "m", "o", "u", "n", "t">>),
          Lit(<<"N", "e", "t", " ", "S", "a", "l", "a", "r", "y">>),
          Lit(<<"N", "e", "t", " ", "P", "a", "y">>),
          Lit(<<"T", "a", "k", "e", " ", "H", "o", "m", "e">>),
          Lit(<<"T", "o", "t", "a", "l">>),
          Lit(<<"N", "e", "t">>)>>)

\* (?:Tax Deducted|TDS|Income Tax)
tax_deducted_label ==
    Alt(<<Lit(<<"T", "a", "x", " ", "D", "e", "d", "u", "c", "t", "e", "d">>),
          Lit(<<"T", "D", "S">>),
          Lit(<<"I", "n", "c", "o", "m", "e", " ", "T", "a", "x">>)>>)

\* (?:PAN|Permanent Account Number)
pan_label ==
    Alt(<<Lit(<<"P", "A", "N">>),
          Lit(<<"P", "e", "r", "m", "a", "n", "e", "n", "t", " ", "A", "c", "c", "o", "u", "n", "t", " ", "N", "u", "m", "b", "e", "r">>)>>)

\* (?:Assessment Year|AY)
assessment_year_label ==
    Alt(<<Lit(<<"A", "s", "s", "e", "s", "s", "m", "e", "n", "t", " ", "Y", "e", "a", "r">>),
          Lit(<<"A", "Y">>)>>)

\* (?:Total Income|Gross Total Income)
total_income_label ==
    Alt(<<Lit(<<"T", "o", "t", "a", "l", " ", "I", "n", "c", "o", "m", "e">>),
          Lit(<<"G", "r", "o", "s", "s", " ", "T", "o", "t", "a", "l", " ", "I", "n", "c", "o", "m", "e">>)>>)

\* (?:Taxable Income|Net Taxable Income)
taxable_income_label ==
    Alt(<<Lit(<<"T", "a", "x", "a", "b", "l", "e", " ", "I", "n", "c", "o", "m", "e">>),
          Lit(<<"N", "e", "t", " ", "T", "a", "x", "a", "b", "l", "e", " ", "I", "n", "c", "o", "m", "e">>)>>)

\* (?:Tax Payable|Total Tax Payable)
tax_payable_label ==
    Alt(<<Lit(<<"T", "a", "x", " ", "P", "a", "y", "a", "b", "l", "e">>),
          Lit(<<"T", "o", "t", "a", "l", " ", "T", "a", "x", " ", "P", "a", "y", "a", "b", "l", "e">>)>>)

\* (?:Tax Paid|Total Tax Paid)
tax_paid_label ==
    Alt(<<Lit(<<"T", "a", "x", " ", "P", "a", "i", "d">>),
          Lit(<<"T", "o", "t", "a", "l", " ", "T", "a", "x", " ", "P", "a", "i", "d">>)>>)

(***************************************************************************)
(* Values of a field or metric mapping: a float or a str.                  *)
(***************************************************************************)
Abs(x) == IF x < 0 THEN -x ELSE x

RECURSIVE GCD(_, _)
GCD(a, b) == IF b = 0 THEN a ELSE GCD(b, a % b)

\* the float n/d, d > 0, in lowest terms
Num(n, d) ==
    LET g == GCD(Abs(n), d)
    IN  [k |-> "float", s |-> <<>>, n |-> n \div g, d |-> d \div g]

Str(s) == [k |-> "str", s |-> s, n |-> 0, d |-> 1]

\* dict operations on a sequence of items
Keys(dict) == {dict[i][1] : i \in DOMAIN dict}

Get(dict, key) == dict[CHOOSE i \in DOMAIN dict : dict[i][1] = key][2]

\* dict[key] = value: an existing key keeps its place
SetItem(dict, key, value) ==
    IF key \in Keys(dict)
    THEN [i \in DOMAIN dict |-> IF dict[i][1] = key THEN <<key, value>> ELSE dict[i]]
    ELSE Append(dict, <<key, value>>)

(***************************************************************************)
(* The pattern tables and the extraction loop.                             *)
(***************************************************************************)
Pattern(field, label, marker, group) ==
    [field |-> field, prefix |-> Cat(<<label>> \o Separator \o marker), group |-> group]

salary_patterns ==
    <<Pattern("employee_name", employee_name_label, <<>>, NameGroup),
      Pattern("employee_id", employee_id_label, <<>>, AlnumGroup),
      Pattern("basic_salary", basic_salary_label, CurrencyMarker, CurrencyGroup),
      Pattern("hra", hra_label, CurrencyMarker, CurrencyGroup),
      Pattern("pf", pf_label, CurrencyMarker, CurrencyGroup),
      Pattern("gross_salary", gross_salary_label, CurrencyMarker, CurrencyGroup),
      Pattern("net_amount", net_amount_label, CurrencyMarker, CurrencyGroup),
      Pattern("tax_deducted", tax_deducted_label, CurrencyMarker, CurrencyGroup)>>

itr_patterns ==
    <<Pattern("pan", pan_label, <<>>, AlnumGroup),
      Pattern("assessment_year", assessment_year_label, <<>>, YearGroup),
      Pattern("total_income", total_income_label, CurrencyMarker, CurrencyGroup),
      Pattern("taxable_income", taxable_income_label, CurrencyMarker, CurrencyGroup),
      Pattern("tax_payable", tax_payable_label, CurrencyMarker, CurrencyGroup),
      Pattern("tax_paid", tax_paid_label, CurrencyMarker, CurrencyGroup)>>

\* the lists of lines 67 and 98
SalaryCurrencyFields ==
    {"basic_salary", "hra", "pf", "gross_salary", "net_amount", "tax_deducted"}

ItrCurrencyFields == {"total_income", "taxable_income", "tax_payable", "tax_paid"}

NoMatch == [matched |-> FALSE, group |-> <<>>]

RECURSIVE FirstGroup(_, _, _, _)
\* the first end ps[j] of the prefix from which the group matches
FirstGroup(group, text, ps, j) ==
    IF j > Len(ps) THEN NoMatch
    ELSE LET es == Ends(group, text, ps[j])
         IN  IF es # <<>>
             THEN [matched |-> TRUE, group |-> SubSeq(text, ps[j], es[1] - 1)]
             ELSE FirstGroup(group, text, ps, j + 1)

RECURSIVE SearchFrom(_, _, _)
SearchFrom(pattern, text, i) ==
    IF i > Len(text) + 1 THEN NoMatch
    ELSE LET m == FirstGroup(pattern.group, text, Ends(pattern.prefix, text, i), 1)
         IN  IF m.matched THEN m ELSE SearchFrom(pattern, text, i + 1)

\* re.match in place of re.search: a match only at the start of the text
re_match(pattern, text) ==
    FirstGroup(pattern.group, text, Ends(pattern.prefix, text, 1), 1)

\* re.search(pattern, text, re.IGNORECASE): the leftmost match, and its group(1)
re_search(pattern, text) == SearchFrom(pattern, text, 1)

\* str.replace(',', '')
RemoveCommas(s) == SelectSeq(s, LAMBDA c : c # ",")

RECURSIVE strip(_)
\* str.strip()
strip(s) ==
    IF s = <<>> THEN s
    ELSE IF s[1] \in Whitespace THEN strip(Tail(s))
    ELSE IF s[Len(s)] \in Whitespace THEN strip(SubSeq(s, 1, Len(s) - 1))
    ELSE s

DigitValue(c) == (CHOOSE i \in DOMAIN DigitChars : DigitChars[i] = c) - 1

RECURSIVE IntOf(_)
IntOf(digits) ==
    IF digits = <<>> THEN 0
    ELSE 10 * IntOf(SubSeq(digits, 1, Len(digits) - 1)) + DigitValue(digits[Len(digits)])

RECURSIVE Pow10(_)
Pow10(k) == IF k = 0 THEN 1 ELSE 10 * Pow10(k - 1)

\* float(value) on a str of digits and points: the number, or ValueError when the
\* str holds no digit or more than one point
float(value) ==
    LET digits == SelectSeq(value, LAMBDA c : c \in Digits)
        points == SelectSeq(value, LAMBDA c : c \notin Digits)
        point  == CHOOSE i \in DOMAIN value : value[i] = "."
    IN  IF digits = <<>> \/ points \notin {<<>>, <<".">>}
        THEN [ok |-> FALSE, val |-> Str(<<>>)]
        ELSE [ok |-> TRUE,
              val |-> IF points = <<>>
                      THEN Num(IntOf(digits), 1)
                      ELSE Num(IntOf(digits), Pow10(Len(value) - point))]

\* the loop body without value.replace(',', '')
StoredValue_KeepsCommas(field, currency_fields, group) ==
    IF field \in currency_fields
    THEN IF float(group).ok THEN float(group).val ELSE Str(group)
    ELSE Str(strip(group))

\* the body of the loop of lines 64-75 and 95-106: the value stored for a match
StoredValue(field, currency_fields, group) ==
    IF field \in currency_fields
    THEN LET value == RemoveCommas(group)
         IN  IF float(value).ok THEN float(value).val ELSE Str(group)
    ELSE Str(strip(group))

RECURSIVE ExtractLoop(_, _, _, _, _)
ExtractLoop(patterns, currency_fields, text, k, results) ==
    IF k > Len(patterns) THEN results
    ELSE LET match == re_search(patterns[k], text)
             field == patterns[k].field
         IN  ExtractLoop(patterns, currency_fields, text, k + 1,
                 IF match.matched
                 THEN SetItem(results, field,
                              StoredValue(field, currency_fields, match.group))
                 ELSE results)

extract_salary_fields(text) ==
    ExtractLoop(salary_patterns, SalaryCurrencyFields, text, 1, <<>>)

extract_itr_fields(text) ==
    ExtractLoop(itr_patterns, ItrCurrencyFields, text, 1, <<>>)

(***************************************************************************)
(* perform_calculations.  A Python operator applied to values either       *)
(* returns a value or raises TypeError (a str where a number is needed).   *)
(***************************************************************************)
Returns(v) == [raised |-> FALSE, val |-> v]

TypeError == [raised |-> TRUE, val |-> Str(<<>>)]

RECURSIVE Repeat(_, _)
Repeat(s, k) == IF k <= 0 THEN <<>> ELSE s \o Repeat(s, k - 1)

\* v * k for an int k: a float product, or the str repeated k times
py_mul(v, k) ==
    IF v.k = "float" THEN Returns(Num(v.n * k, v.d)) ELSE Returns(Str(Repeat(v.s, k)))

\* v / k for a nonzero int k
py_div_int(v, k) ==
    IF v.k = "float" THEN Returns(Num(v.n, v.d * k)) ELSE TypeError

\* v > 0
py_gt_zero(v) ==
    IF v.k = "float" THEN [raised |-> FALSE, val |-> v.n > 0]
    ELSE [raised |-> TRUE, val |-> FALSE]

\* a / b for a float b # 0
py_truediv(a, b) ==
    IF a.k = "float" /\ b.k = "float"
    THEN IF b.n > 0 THEN Returns(Num(a.n * b.d, a.d * b.n))
                    ELSE Returns(Num(-(a.n * b.d), a.d * (-b.n)))
    ELSE TypeError

\* a - b
py_sub(a, b) ==
    IF a.k = "float" /\ b.k = "float"
    THEN Returns(Num(a.n * b.d - b.n * a.d, a.d * b.d))
    ELSE TypeError

\* calculations[key] = r, where evaluating r may have raised
Assign(c, key, r) ==
    IF r.raised THEN [c EXCEPT !.raised = TRUE]
    ELSE [c EXCEPT !.calculations = SetItem(@, key, r.val)]

\* `if salary_data.get('net_amount'):` in place of the membership test
annual_salary_rule_truthy(salary_data, itr_data, c) ==
    IF c.raised THEN c
    ELSE IF "net_amount" \in Keys(salary_data)
            /\ Get(salary_data, "net_amount") \notin {Num(0, 1), Str(<<>>)}
    THEN Assign(c, "annual_salary", py_mul(Get(salary_data, "net_amount"), 12))
    ELSE c

\* lines 116-117
annual_salary_rule(salary_data, itr_data, c) ==
    IF c.raised THEN c
    ELSE IF "net_amount" \in Keys(salary_data)
    THEN Assign(c, "annual_salary", py_mul(Get(salary_data, "net_amount"), 12))
    ELSE c

\* lines 120-121
monthly_income_rule(salary_data, itr_data, c) ==
    IF c.raised THEN c
    ELSE IF "total_income" \in Keys(itr_data)
    THEN Assign(c, "monthly_income_from_itr",
                py_div_int(Get(itr_data, "total_income"), 12))
    ELSE c

\* lines 124-125: the comparison is evaluated only when both keys are present
tax_percentage_rule(salary_data, itr_data, c) ==
    IF c.raised THEN c
    ELSE IF "gross_salary" \in Keys(salary_data) /\ "tax_deducted" \in Keys(salary_data)
    THEN LET positive == py_gt_zero(Get(salary_data, "gross_salary"))
             ratio == py_truediv(Get(salary_data, "tax_deducted"),
                                 Get(salary_data, "gross_salary"))
         IN  IF positive.raised THEN [c EXCEPT !.raised = TRUE]
             ELSE IF positive.val
             THEN Assign(c, "tax_percentage",
                         IF ratio.raised THEN ratio ELSE py_mul(ratio.val, 100))
             ELSE c
    ELSE c

\* lines 128-129
annual_tax_rule(salary_data, itr_data, c) ==
    IF c.raised THEN c
    ELSE IF "tax_deducted" \in Keys(salary_data)
    THEN Assign(c, "annual_tax", py_mul(Get(salary_data, "tax_deducted"), 12))
    ELSE c

\* lines 132-133
income_difference_rule(salary_data, itr_data, c) ==
    IF c.raised THEN c
    ELSE IF "total_income" \in Keys(itr_data) /\ "annual_salary" \in Keys(c.calculations)
    THEN Assign(c, "income_difference",
                py_sub(Get(itr_data, "total_income"), Get(c.calculations, "annual_salary")))
    ELSE c

\* the call either returns the dict calculations or raises (raised = TRUE)
perform_calculations(salary_data, itr_data) ==
    LET c0 == [raised |-> FALSE, calculations |-> <<>>]
        c1 == annual_salary_rule(salary_data, itr_data, c0)
        c2 == monthly_income_rule(salary_data, itr_data, c1)
        c3 == tax_percentage_rule(salary_data, itr_data, c2)
        c4 == annual_tax_rule(salary_data, itr_data, c3)
    IN  income_difference_rule(salary_data, itr_data, c4)

(***************************************************************************)
(* The calculations table of the Salary Analysis tab (lines 270-284).      *)
(***************************************************************************)
\* the characters of the metric names
chars(name) ==
    CASE name = "annual_salary" ->
           <<"a", "n", "n", "u", "a", "l", "_", "s", "a", "l", "a", "r", "y">>
      [] name = "monthly_income_from_itr" ->
           <<"m", "o", "n", "t", "h", "l", "y", "_", "i", "n", "c", "o", "m", "e", "_", "f", "r", "o", "m", "_", "i", "t", "r">>
      [] name = "tax_percentage" ->
           <<"t", "a", "x", "_", "p", "e", "r", "c", "e", "n", "t", "a", "g", "e">>
      [] name = "annual_tax" ->
           <<"a", "n", "n", "u", "a", "l", "_", "t", "a", "x">>
      [] name = "income_difference" ->
           <<"i", "n", "c", "o", "m", "e", "_", "d", "i", "f", "f", "e", "r", "e", "n", "c", "e">>

RECURSIVE split(_, _)
\* str.split(sep) for a one-character sep
split(s, sep) ==
    IF \A i \in DOMAIN s : s[i] # sep THEN <<s>>
    ELSE LET i == CHOOSE j \in DOMAIN s : s[j] = sep /\ \A h \in 1..(j - 1) : s[h] # sep
         IN  <<SubSeq(s, 1, i - 1)>> \o split(SubSeq(s, i + 1, Len(s)), sep)

\* str.capitalize()
capitalize(word) ==
    [i \in DOMAIN word |-> IF i = 1 THEN upper(word[i]) ELSE lower(word[i])]

RECURSIVE join(_, _)
\* sep.join(words)
join(sep, words) ==
    IF words = <<>> THEN <<>>
    ELSE IF Len(words) = 1 THEN words[1]
    ELSE words[1] \o sep \o join(sep, Tail(words))

\* x.replace('_', ' ').capitalize(): only the first word capitalised
Label_FirstWordOnly(x) ==
    capitalize([i \in DOMAIN x |-> IF x[i] = "_" THEN " " ELSE x[i]])

\* line 277
Label(x) ==
    LET words == split(x, "_")
    IN  join(<<" ">>, [i \in DOMAIN words |-> capitalize(words[i])])

RECURSIVE IntToStr(_)
IntToStr(n) ==
    IF n < 10 THEN <<DigitChars[n + 1]>>
    ELSE IntToStr(n \div 10) \o <<DigitChars[(n % 10) + 1]>>

RECURSIVE Grouped(_)
\* the ',' option of the format: a comma before every group of three digits
Grouped(digits) ==
    IF Len(digits) <= 3 THEN digits
    ELSE Grouped(SubSeq(digits, 1, Len(digits) - 3)) \o <<",">>
         \o SubSeq(digits, Len(digits) - 2, Len(digits))

\* round(|n| * 100 / d), ties to even
Cents(v) ==
    LET a == Abs(v.n) * 100
        q == a \div v.d
        r == a % v.d
    IN  IF 2 * r > v.d \/ (2 * r = v.d /\ q % 2 = 1) THEN q + 1 ELSE q

\* f"rupee {value:,.2f}" (line 282)
FormatCurrency(v) ==
    LET c == Cents(v)
    IN  <<"rupee", " ">> \o (IF v.n < 0 THEN <<"-">> ELSE <<>>)
        \o Grouped(IntToStr(c \div 100)) \o <<".">>
        \o <<DigitChars[((c \div 10) % 10) + 1], DigitChars[(c % 10) + 1]>>

\* lines 280-282: isinstance(value, (int, float))
FormatValue(v) == IF v.k = "float" THEN Str(FormatCurrency(v)) ELSE v

\* lines 274-282: the rows (Calculation, Value) of calc_df
FormatTable(data) ==
    [i \in DOMAIN data |-> <<Label(chars(data[i][1])), FormatValue(data[i][2])>>]

RECURSIVE MatchedGroups(_, _, _)
\* match.group(1) of every pattern that matches (lines 65-69 and 96-100)
MatchedGroups(patterns, text, k) ==
    IF k > Len(patterns) THEN <<>>
    ELSE LET match == re_search(patterns[k], text)
         IN  (IF match.matched THEN <<<<patterns[k].field, match.group>>>> ELSE <<>>)
             \o MatchedGroups(patterns, text, k + 1)

(***************************************************************************)
(* State.  The Streamlit session and widgets, the calls of the last script *)
(* run, and the arguments and results of the functions under test.         *)
(***************************************************************************)
VARIABLES
    pc,             \* which run this is and how far it got
    text,           \* the text given to an extractor
    document_type,  \* "salary" or "itr": the extractor the text is for
    results,        \* the dict the extractor returned
    groups,         \* match.group(1) of each matched pattern, in pattern order
    salary_data,    \* first argument of perform_calculations
    itr_data,       \* second argument of perform_calculations
    outcome,        \* what perform_calculations did: raised, or returned calculations
    calc_df,        \* the rows of the calculations table
    session_state,  \* st.session_state: a function on the keys that are set
    salary_slip,    \* the salary slip uploader: "None" or "file"
    itr_document,   \* the ITR uploader: "None" or "file"
    log             \* the process_document and extractor calls of the last script run

vars == <<pc, text, document_type, results, groups, salary_data, itr_data, outcome,
          calc_df, session_state, salary_slip, itr_document, log>>

extract_vars == <<text, document_type, results, groups>>

calc_vars == <<salary_data, itr_data, outcome, calc_df>>

app_vars == <<session_state, salary_slip, itr_document, log>>

NotCalled == [raised |-> FALSE, calculations |-> <<>>]

EmptySession == [key \in {} |-> <<>>]

IdleExtract == text = <<>> /\ document_type = "salary" /\ results = <<>> /\ groups = <<>>

IdleCalc == salary_data = <<>> /\ itr_data = <<>> /\ outcome = NotCalled /\ calc_df = <<>>

IdleApp ==
    /\ session_state = EmptySession
    /\ salary_slip = "None"
    /\ itr_document = "None"
    /\ log = <<>>

(***************************************************************************)
(* The extractors on bounded texts: every concatenation of at most         *)
(* MaxFragments pieces of salary-slip text, or of tax-return text, holding *)
(* at most MaxDigits digits, so that every amount float() can read stays   *)
(* within the integers the numerators and denominators are computed in.    *)
(***************************************************************************)
MaxFragments == 3

MaxDigits == 8

SalaryFragments ==
    {<<"T", "D", "S", ",">>,
     <<"N", "a", "m", "e", ":", " ">>,
     <<"E", "m", "p", " ", "I", "D">>,
     <<"N", "e", "t">>,
     <<" ", "R", "s", ".">>,
     <<"1", ",", "0", ".", "5">>,
     <<",">>}

ItrFragments ==
    {<<"P", "A", "N", " ">>,
     <<"A", "Y", ":">>,
     <<"T", "o", "t", "a", "l", " ", "I", "n", "c", "o", "m", "e">>,
     <<" ", "I", "N", "R">>,
     <<"2", "0", "2", "4">>,
     <<"-", "2", "5">>,
     <<",">>}

RECURSIVE Concatenations(_, _)
Concatenations(fragments, k) ==
    IF k = 0 THEN {<<>>}
    ELSE LET shorter == Concatenations(fragments, k - 1)
         IN  shorter \cup {t \o f : t \in shorter, f \in fragments}

DigitCount(t) == Cardinality({i \in 1..Len(t) : t[i] \in Digits})

Texts(fragments) ==
    {t \in Concatenations(fragments, MaxFragments) : DigitCount(t) <= MaxDigits}

InitExtract ==
    /\ pc = "text"
    /\ document_type \in {"salary", "itr"}
    /\ text \in Texts(IF document_type = "salary" THEN SalaryFragments
                                                  ELSE ItrFragments)
    /\ results = <<>>
    /\ groups = <<>>
    /\ IdleCalc
    /\ IdleApp

ExtractSalary ==
    /\ pc = "text"
    /\ document_type = "salary"
    /\ results' = extract_salary_fields(text)
    /\ groups' = MatchedGroups(salary_patterns, text, 1)
    /\ pc' = "extracted"
    /\ UNCHANGED <<text, document_type, calc_vars, app_vars>>

ExtractItr ==
    /\ pc = "text"
    /\ document_type = "itr"
    /\ results' = extract_itr_fields(text)
    /\ groups' = MatchedGroups(itr_patterns, text, 1)
    /\ pc' = "extracted"
    /\ UNCHANGED <<text, document_type, calc_vars, app_vars>>

NextExtract == ExtractSalary \/ ExtractItr

SpecExtract == InitExtract /\ [][NextExtract]_vars

(***************************************************************************)
(* perform_calculations and the calculations table on bounded field        *)
(* mappings: each Currency field the calculation reads is absent, a        *)
(* number, or the raw str kept when float() failed.                        *)
(***************************************************************************)
MaxUnits == 1

CurrencyValues ==
    {Num(250 * k, 1) : k \in 0..MaxUnits} \cup {Num(21, 2), Str(<<",">>)}

Optional(key, values) == {<<>>} \cup {<<<<key, v>>>> : v \in values}

SalaryInputs ==
    {g \o n \o t : g \in Optional("gross_salary", CurrencyValues),
                   n \in Optional("net_amount", CurrencyValues),
                   t \in Optional("tax_deducted", CurrencyValues)}

ItrInputs == Optional("total_income", CurrencyValues)

InitCalc ==
    /\ pc = "arguments"
    /\ salary_data \in SalaryInputs
    /\ itr_data \in ItrInputs
    /\ outcome = NotCalled
    /\ calc_df = <<>>
    /\ IdleExtract
    /\ IdleApp

Calculate ==
    /\ pc = "arguments"
    /\ outcome' = perform_calculations(salary_data, itr_data)
    /\ pc' = "calculated"
    /\ UNCHANGED <<salary_data, itr_data, calc_df, extract_vars, app_vars>>

\* line 270: the table is built only for a non-empty dict
Format ==
    /\ pc = "calculated"
    /\ ~outcome.raised
    /\ outcome.calculations # <<>>
    /\ calc_df' = FormatTable(outcome.calculations)
    /\ pc' = "formatted"
    /\ UNCHANGED <<salary_data, itr_data, outcome, extract_vars, app_vars>>

NextCalc == Calculate \/ Format

SpecCalc == InitCalc /\ [][NextCalc]_vars

(***************************************************************************)
(* The application: the Settings tab, the two uploaders and the "Process   *)
(* Documents" button.  Every action is one run of the script.              *)
(***************************************************************************)
\* texts the Vision API may return for an uploaded salary slip and for an
\* uploaded ITR document
OcrTexts(doc) ==
    IF doc = "salary"
    THEN {<<"N", "e", "t", " ", "5">>, <<"N", "e", "t", " ", ",">>, <<"x">>}
    ELSE {<<"T", "o", "t", "a", "l", " ", "I", "n", "c", "o", "m", "e", " ", "9">>, <<"x">>}

\* process_document (lines 22-44) either raises (credentials that are no JSON, a
\* failed request), returns None (response.error.message), or returns the text,
\* "" when there are no annotations
OcrOutcomes(doc) ==
    {[raised |-> TRUE, none |-> FALSE, text |-> <<>>],
     [raised |-> FALSE, none |-> TRUE, text |-> <<>>]}
    \cup {[raised |-> FALSE, none |-> FALSE, text |-> t] : t \in {<<>>} \cup OcrTexts(doc)}

\* st.session_state[key] = value
Put(st, key, value) ==
    [x \in DOMAIN st \cup {key} |-> IF x = key THEN value ELSE st[x]]

\* `if extracted_text is not None:`
IsNotNone(extracted_text) == ~extracted_text.none

\* `if extracted_text:` (lines 190 and 212)
Truthy(extracted_text) == ~extracted_text.none /\ extracted_text.text # <<>>

OcrResult(r) ==
    IF r.raised THEN "raised"
    ELSE IF r.none THEN "None"
    ELSE IF r.text = <<>> THEN "empty"
    ELSE "text"

Call(function, doc, result) == [call |-> function, doc |-> doc, result |-> result]

\* lines 192-196 and 214-218: the extracted fields kept in the local dict and
\* saved, with the text, in the session
Processed(st, doc, ocr, extracted_text, fields) ==
    [aborted |-> FALSE,
     session |-> Put(Put(st, doc \o "_data", fields), doc \o "_text", extracted_text),
     data |-> fields,
     log |-> <<Call("process_document", doc, ocr),
               Call("extract_" \o doc \o "_fields", doc, "returned")>>]

\* lines 181-200 (doc = "salary") and 203-222 (doc = "itr"): the local dict, the
\* session after the step, and whether process_document raised out of the handler
DocumentStep(st, doc, file, r) ==
    IF file = "None"
    THEN [aborted |-> FALSE, session |-> st, data |-> <<>>, log |-> <<>>]
    ELSE IF r.raised
    THEN [aborted |-> TRUE, session |-> st, data |-> <<>>,
          log |-> <<Call("process_document", doc, OcrResult(r))>>]
    ELSE IF Truthy(r)
    THEN Processed(st, doc, OcrResult(r), r.text,
                   IF doc = "salary" THEN extract_salary_fields(r.text)
                                     ELSE extract_itr_fields(r.text))
    ELSE [aborted |-> FALSE, session |-> st, data |-> <<>>,
          log |-> <<Call("process_document", doc, OcrResult(r))>>]

\* lines 225-227: c is what perform_calculations(salary_data, itr_data) does
PerformStep(s1, s2, c) ==
    IF (s1.data # <<>> \/ s2.data # <<>>) /\ ~c.raised
    THEN [session |-> Put(s2.session, "calculations", c.calculations),
          log |-> s1.log \o s2.log]
    ELSE [session |-> s2.session, log |-> s1.log \o s2.log]

\* lines 203-227, after the salary slip step s1 and the ITR step s2
AfterItrStep(s1, s2) ==
    IF s2.aborted THEN [session |-> s2.session, log |-> s1.log \o s2.log]
    ELSE PerformStep(s1, s2, perform_calculations(s1.data, s2.data))

\* lines 203-227, after the salary slip step s1
AfterSalaryStep(s1, document, r2) ==
    IF s1.aborted THEN [session |-> s1.session, log |-> s1.log]
    ELSE AfterItrStep(s1, DocumentStep(s1.session, "itr", document, r2))

\* lines 176-227: the session and the calls after a click
ProcessDocumentsHandler(st, slip, document, r1, r2) ==
    IF "api_key" \notin DOMAIN st
    THEN [session |-> st, log |-> <<>>]
    ELSE AfterSalaryStep(DocumentStep(st, "salary", slip, r1), document, r2)

Init ==
    /\ pc = "app"
    /\ IdleApp
    /\ IdleExtract
    /\ IdleCalc

\* lines 145-153: a non-empty key typed in the Settings tab
EnterApiKey ==
    /\ pc = "app"
    /\ session_state' = Put(session_state, "api_key", "key")
    /\ log' = <<>>
    /\ UNCHANGED <<pc, salary_slip, itr_document, extract_vars, calc_vars>>

\* line 170
UploadSalarySlip ==
    /\ pc = "app"
    /\ salary_slip = "None"
    /\ salary_slip' = "file"
    /\ log' = <<>>
    /\ UNCHANGED <<pc, session_state, itr_document, extract_vars, calc_vars>>

RemoveSalarySlip ==
    /\ pc = "app"
    /\ salary_slip = "file"
    /\ salary_slip' = "None"
    /\ log' = <<>>
    /\ UNCHANGED <<pc, session_state, itr_document, extract_vars, calc_vars>>

\* line 173
UploadItrDocument ==
    /\ pc = "app"
    /\ itr_document = "None"
    /\ itr_document' = "file"
    /\ log' = <<>>
    /\ UNCHANGED <<pc, session_state, salary_slip, extract_vars, calc_vars>>

RemoveItrDocument ==
    /\ pc = "app"
    /\ itr_document = "file"
    /\ itr_document' = "None"
    /\ log' = <<>>
    /\ UNCHANGED <<pc, session_state, salary_slip, extract_vars, calc_vars>>

Ran(run) ==
    /\ session_state' = run.session
    /\ log' = run.log

\* line 176: a click; the Vision API answers each call in any of its ways
ProcessDocuments ==
    /\ pc = "app"
    /\ \E r1 \in OcrOutcomes("salary"), r2 \in OcrOutcomes("itr") :
           Ran(ProcessDocumentsHandler(session_state, salary_slip, itr_document,
                                       r1, r2))
    /\ UNCHANGED <<pc, salary_slip, itr_document, extract_vars, calc_vars>>

Next ==
    \/ EnterApiKey
    \/ UploadSalarySlip
    \/ RemoveSalarySlip
    \/ UploadItrDocument
    \/ RemoveItrDocument
    \/ ProcessDocuments

Spec == Init /\ [][Next]_vars

(***************************************************************************)
(* Properties of perform_calculations and of the calculations table,       *)
(* checked under SpecCalc.                                                 *)
(***************************************************************************)
Called == pc \in {"calculated", "formatted"}

Returned == Called /\ ~outcome.raised

Has(dict, key) == key \in Keys(dict)

IsFloat(dict, key) == Has(dict, key) /\ Get(dict, key).k = "float"

IsRaw(dict, key) == Has(dict, key) /\ Get(dict, key).k = "str"

\* C1: perform_calculations never raises: for every pair of field mappings the
\* extractors can produce, raw-fallback strings included, the call returns.
PerformCalculationsNeverRaises == Called => ~outcome.raised

\* the dicts with the keys of dict, in its order, and any Currency values
Revalued(dict) ==
    {[i \in DOMAIN dict |-> <<dict[i][1], f[i]>>] : f \in [DOMAIN dict -> CurrencyValues]}

SameKinds(d1, d2) == \A i \in DOMAIN d1 : d1[i][2].k = d2[i][2].k

GrossPositive(dict) ==
    IsFloat(dict, "gross_salary") /\ Get(dict, "gross_salary").n > 0

NoNullMetric == \A i \in DOMAIN outcome.calculations :
                    outcome.calculations[i][2].k \in {"float", "str"}

EmptyGivesEmpty ==
    (salary_data = <<>> /\ itr_data = <<>>) =>
        (~outcome.raised /\ outcome.calculations = <<>>)

\* C2 as stated: the metric keys of the result depend only on which field keys
\* are present: any two argument pairs with the same key sets, for which the call
\* returns, give results with the same key sets; no metric is null; two empty
\* mappings give the empty result.
MetricKeysDependOnlyOnFieldKeys ==
    Returned =>
        /\ \A s \in Revalued(salary_data), i \in Revalued(itr_data) :
               LET other == perform_calculations(s, i)
               IN  ~other.raised =>
                       Keys(other.calculations) = Keys(outcome.calculations)
        /\ NoNullMetric
        /\ EmptyGivesEmpty

\* C2 as amended: two argument pairs with the same key sets that agree on which
\* present values are raw strings and on whether gross_salary > 0 have the same
\* outcome: both calls raise, or both return results with the same key sets; no
\* metric is null; two empty mappings give the empty result.
MetricKeysDependOnKeysKindsAndGuard ==
    Called =>
        /\ \A s \in Revalued(salary_data), i \in Revalued(itr_data) :
               (/\ SameKinds(s, salary_data)
                /\ SameKinds(i, itr_data)
                /\ GrossPositive(s) = GrossPositive(salary_data)) =>
                   LET other == perform_calculations(s, i)
                   IN  /\ other.raised = outcome.raised
                       /\ ~other.raised =>
                              Keys(other.calculations) = Keys(outcome.calculations)
        /\ ~outcome.raised => NoNullMetric
        /\ EmptyGivesEmpty

\* C2 witness: gross_salary is 0 and tax_deducted is present: the call returned
\* annual_tax and no tax_percentage.
GuardDecidesTaxPercentage ==
    /\ Returned
    /\ IsFloat(salary_data, "gross_salary")
    /\ Get(salary_data, "gross_salary").n = 0
    /\ Has(salary_data, "tax_deducted")
    /\ Has(outcome.calculations, "annual_tax")
    /\ ~Has(outcome.calculations, "tax_percentage")

\* C3: income_difference is in the result exactly when total_income is present
\* in the tax mapping and net_amount in the salary mapping, and then equals
\* total_income - 12 * net_amount.
IncomeDifferenceRule ==
    Called =>
        LET present == ~outcome.raised /\ Has(outcome.calculations, "income_difference")
            diff == Get(outcome.calculations, "income_difference")
            total == Get(itr_data, "total_income")
            net == Get(salary_data, "net_amount")
        IN  /\ present <=> (Has(itr_data, "total_income") /\ Has(salary_data, "net_amount"))
            /\ present =>
                   /\ diff.k = "float" /\ total.k = "float" /\ net.k = "float"
                   /\ diff.n * total.d * net.d
                          = (total.n * net.d - 12 * net.n * total.d) * diff.d

AllNumbers ==
    /\ \A i \in DOMAIN salary_data : salary_data[i][2].k = "float"
    /\ \A i \in DOMAIN itr_data : itr_data[i][2].k = "float"

\* C3 where every Currency value is a number: the rule holds.
IncomeDifferenceRuleOnNumbers == AllNumbers => IncomeDifferenceRule

\* C4: tax_percentage is absent whenever gross_salary is absent or <= 0, and
\* whenever gross_salary > 0 and tax_deducted is present it is present and
\* equals tax_deducted / gross_salary * 100.
GuardedDivision ==
    Called =>
        LET present == ~outcome.raised /\ Has(outcome.calculations, "tax_percentage")
            pct == Get(outcome.calculations, "tax_percentage")
            gross == Get(salary_data, "gross_salary")
            tax == Get(salary_data, "tax_deducted")
        IN  /\ (~Has(salary_data, "gross_salary")
                \/ (IsFloat(salary_data, "gross_salary") /\ gross.n <= 0)) => ~present
            /\ (GrossPositive(salary_data) /\ Has(salary_data, "tax_deducted")) =>
                   /\ present
                   /\ pct.k = "float" /\ tax.k = "float"
                   /\ pct.n * gross.n * tax.d = 100 * tax.n * gross.d * pct.d

\* C4 where every Currency value is a number: the guard and the value hold.
GuardedDivisionOnNumbers == AllNumbers => GuardedDivision

\* C8: the table has one row per entry of the metrics dict, in the dict's order;
\* each label is the metric name with every underscore turned into a space and
\* every word capitalised; a value that is no number is passed through unchanged.
FormatterRows ==
    pc = "formatted" =>
        /\ Len(calc_df) = Len(outcome.calculations)
        /\ \A i \in DOMAIN calc_df :
               LET name == chars(outcome.calculations[i][1])
                   value == outcome.calculations[i][2]
                   label == calc_df[i][1]
               IN  /\ Len(label) = Len(name)
                   /\ \A j \in DOMAIN name :
                          label[j] = IF name[j] = "_" THEN " "
                                     ELSE IF j = 1 \/ name[j - 1] = "_"
                                     THEN upper(name[j])
                                     ELSE lower(name[j])
                   /\ value.k = "str" => calc_df[i][2] = value

\* C8 witness: a table of three rows whose order is not alphabetical and whose
\* first value is a str.
UnsortedTableWithText ==
    /\ pc = "formatted"
    /\ Len(calc_df) = 3
    /\ outcome.calculations[1][1] = "annual_salary"
    /\ outcome.calculations[1][2].k = "str"
    /\ outcome.calculations[2][1] = "tax_percentage"
    /\ outcome.calculations[3][1] = "annual_tax"

(***************************************************************************)
(* Properties of the extractors, checked under SpecExtract.                *)
(***************************************************************************)
Patterns == IF document_type = "salary" THEN salary_patterns ELSE itr_patterns

CurrencyFields ==
    IF document_type = "salary" THEN SalaryCurrencyFields ELSE ItrCurrencyFields

FieldNames(patterns) == {patterns[k].field : k \in DOMAIN patterns}

DigitsOf(s) == SelectSeq(s, LAMBDA c : c \in Digits)

\* the number of characters after the decimal point of s, 0 without a point
DecimalPlaces(s) ==
    IF "." \in Range(s)
    THEN Len(s) - (CHOOSE i \in DOMAIN s : s[i] = ".")
    ELSE 0

\* C5: for every Currency rule that matches, the extractor stores under the
\* rule's key the number the captured group denotes once its commas are removed,
\* or, when the group holds no digit to parse, the captured string itself.
CurrencyCoercion ==
    pc = "extracted" =>
        \A j \in DOMAIN groups :
            LET field == groups[j][1]
                group == groups[j][2]
            IN  field \in CurrencyFields =>
                    /\ Has(results, field)
                    /\ IF DigitsOf(group) # <<>>
                       THEN /\ Get(results, field).k = "float"
                            /\ Get(results, field).n * Pow10(DecimalPlaces(group))
                                   = IntOf(DigitsOf(group)) * Get(results, field).d
                       ELSE Get(results, field) = Str(group)

\* C5 witness: a salary text from which net_amount was parsed out of a group with
\* a comma and a decimal point, and tax_deducted kept as the raw string.
ParsedAndRawFallback ==
    /\ pc = "extracted"
    /\ document_type = "salary"
    /\ \E j \in DOMAIN groups :
           /\ groups[j][1] = "net_amount"
           /\ "," \in Range(groups[j][2])
           /\ "." \in Range(groups[j][2])
    /\ IsFloat(results, "net_amount")
    /\ IsRaw(results, "tax_deducted")

RECURSIVE EndSet(_, _, _)
RECURSIVE EndSetCat(_, _, _, _)
\* the positions at which some match of r starting at position i ends
EndSet(r, t, i) ==
    CASE r.t = "lit" -> IF LitAt(r.s, t, i) THEN {i + Len(r.s)} ELSE {}
      [] r.t = "cls" -> IF i <= Len(t) /\ InClass(t[i], r.cls) THEN {i + 1} ELSE {}
      [] r.t = "rep" -> {j \in (i + r.min)..(Len(t) + 1) :
                            \A h \in i..(j - 1) : InClass(t[h], r.cls)}
      [] r.t = "opt" -> {i} \cup EndSet(r.r, t, i)
      [] r.t = "alt" -> UNION {EndSet(r.rs[k], t, i) : k \in DOMAIN r.rs}
      [] r.t = "cat" -> EndSetCat(r.rs, t, {i}, 1)

EndSetCat(rs, t, from, k) ==
    IF k > Len(rs) THEN from
    ELSE EndSetCat(rs, t, UNION {EndSet(rs[k], t, i) : i \in from}, k + 1)

\* the pattern matches somewhere in the text
MatchesSomewhere(pattern, t) ==
    \E i \in 1..(Len(t) + 1) :
        EndSet(Cat(<<pattern.prefix, pattern.group>>), t, i) # {}

\* the label synonyms of a pattern: the first part of its prefix
Synonyms(pattern) == {pattern.prefix.rs[1].rs[k].s : k \in DOMAIN pattern.prefix.rs[1].rs}

ContainsSynonym(patterns, t) ==
    \E k \in DOMAIN patterns : \E s \in Synonyms(patterns[k]) :
        \E i \in DOMAIN t : LitAt(s, t, i)

\* C6: the returned mapping holds only keys of the document type's rules, each
\* key once; a key is present exactly when its rule's pattern matches somewhere
\* in the text; a text with none of the label synonyms gives the empty mapping.
KeysAreTheMatchedRules ==
    pc = "extracted" =>
        /\ Keys(results) \subseteq FieldNames(Patterns)
        /\ Cardinality(Keys(results)) = Len(results)
        /\ \A k \in DOMAIN Patterns :
               Has(results, Patterns[k].field) <=> MatchesSomewhere(Patterns[k], text)
        /\ ~ContainsSynonym(Patterns, text) => results = <<>>

\* C6 witness: a salary text that is not empty, from which net_amount was
\* extracted and employee_name was not.
SomeRulesMatched ==
    /\ pc = "extracted"
    /\ document_type = "salary"
    /\ Has(results, "net_amount")
    /\ ~Has(results, "employee_name")
    /\ ~Has(results, "employee_id")

AllIn(s, chars_allowed) == \A i \in DOMAIN s : s[i] \in chars_allowed

Points(s) == SelectSeq(s, LAMBDA c : c = ".")

CurrencyGrammar(group) ==
    /\ group # <<>>
    /\ AllIn(group, Digits \cup {",", "."})
    /\ Len(Points(group)) <= 1

\* C7 as stated: every Text field captures only letters and spaces, and every
\* Currency field only digits, commas and at most one decimal point.
CapturedValueGrammar ==
    pc = "extracted" =>
        \A j \in DOMAIN groups :
            IF groups[j][1] \in CurrencyFields
            THEN CurrencyGrammar(groups[j][2])
            ELSE AllIn(groups[j][2], Letters \cup {" "})

YearGrammar(group) ==
    /\ Len(group) \in {4, 7}
    /\ group[1] = "2" /\ group[2] = "0"
    /\ \A i \in DOMAIN group : IF i = 5 THEN group[i] = "-" ELSE group[i] \in Digits

\* C7 as amended: employee_name captures a run of letters and whitespace,
\* employee_id and pan a run of letters and digits, assessment_year 20dd or
\* 20dd-dd, and every Currency field digits and commas with at most one decimal
\* point.
CapturedValueGrammarPerField ==
    pc = "extracted" =>
        \A j \in DOMAIN groups :
            LET field == groups[j][1]
                group == groups[j][2]
            IN  /\ group # <<>>
                /\ CASE field \in CurrencyFields -> CurrencyGrammar(group)
                     [] field = "employee_name" -> AllIn(group, Letters \cup Whitespace)
                     [] field \in {"employee_id", "pan"} ->
                            AllIn(group, Letters \cup Digits)
                     [] field = "assessment_year" -> YearGrammar(group)

\* C7 witness: employee_id captured from a salary text with a digit in it, beside
\* a Currency group with a decimal point.
DigitInTextField ==
    /\ pc = "extracted"
    /\ \E j \in DOMAIN groups :
           /\ groups[j][1] = "employee_id"
           /\ \E i \in DOMAIN groups[j][2] : groups[j][2][i] \in Digits
    /\ \E j \in DOMAIN groups :
           /\ groups[j][1] \in CurrencyFields
           /\ "." \in Range(groups[j][2])

(***************************************************************************)
(* Properties of the "Process Documents" handler, checked under Spec.      *)
(***************************************************************************)
Documents == {"salary", "itr"}

ExtractorCalls(l) ==
    {i \in DOMAIN l : l[i].call \in {"extract_salary_fields", "extract_itr_fields"}}

\* process_document was called for doc and gave no text
OcrGaveNoText(l, doc) ==
    \E i \in DOMAIN l :
        /\ l[i].call = "process_document"
        /\ l[i].doc = doc
        /\ l[i].result \in {"raised", "None", "empty"}

\* the field mapping and raw text the session holds for doc
Stored(st, doc) ==
    [key \in {doc \o "_data", doc \o "_text"} \cap DOMAIN st |-> st[key]]

\* C9: in every script run, an extractor is called only right after
\* process_document returned non-empty text for the same document; when
\* process_document reports an error or returns no text for a document, no
\* extractor is called for it and the session keeps the field mapping and raw
\* text it held for that document.
ExtractorOnlyAfterText ==
    [][/\ \A i \in ExtractorCalls(log') :
              /\ i > 1
              /\ log'[i - 1] = Call("process_document", log'[i].doc, "text")
       /\ \A doc \in Documents :
              OcrGaveNoText(log', doc) =>
                  /\ \A i \in ExtractorCalls(log') : log'[i].doc # doc
                  /\ Stored(session_state', doc) = Stored(session_state, doc)]_vars

\* C9 witness: the salary slip's OCR gave no text in a run whose ITR document was
\* extracted, and the session still holds an earlier salary mapping.
FailedOcrKeepsEarlierData ==
    /\ OcrGaveNoText(log, "salary")
    /\ \E i \in ExtractorCalls(log) : log[i].doc = "itr"
    /\ "salary_data" \in DOMAIN session_state
    /\ session_state["salary_data"] # <<>>

SessionDict(key) == IF key \in DOMAIN session_state THEN session_state[key] ELSE <<>>

\* C10: whenever the session holds 'calculations', it is what
\* perform_calculations returns for the session's 'salary_data' and 'itr_data'
\* (an unset one taken as the empty mapping).
CalculationsAgreeWithStoredFields ==
    "calculations" \in DOMAIN session_state =>
        LET c == perform_calculations(SessionDict("salary_data"), SessionDict("itr_data"))
        IN  /\ ~c.raised
            /\ session_state["calculations"] = c.calculations

====
